---- MODULE Spec2Model ----
(***************************************************************************)
(* Lattice basis reduction of lll-rs: the generic L2 engine of             *)
(* src/l2/mod.rs and the classical LLL engine of src/lll/mod.rs, both in   *)
(* the BigNum flavour (rug::Integer, rug::Rational: exact arithmetic), and *)
(* the BigVector L2 engine of src/l2/bigl2.rs.                             *)
(*                                                                         *)
(* Indices are 0-based as in the source: a Vector is a function on         *)
(* 0..n-1, a Matrix a function from 0..d-1 to its columns.  A Rational is  *)
(* a pair <<num, den>> in canonical form (den > 0, gcd = 1).               *)
(***************************************************************************)
EXTENDS Integers, Sequences, FiniteSets, TLC

VARIABLES
    pc,             \* position of the running engine
    B0,             \* the caller's matrix at the first call
    basis,          \* the matrix being reduced in place
    eta, delta,     \* the caller's parameters (f64 values, as exact rationals)
    gram, mu, r, s, \* working state of the L2 engine
    kappa, zeros,   \* working index and number of retired zero columns
    m, ii,          \* size_reduce: the local copy of mu[kappa], the loop index
    pass,           \* reduction(): 1 or 2, the L2 pass being run
    run,            \* 1: first call, 2: the same call repeated on its output
    B1,             \* the output of the first call
    swap_condition, \* classical LLL: the outer loop's flag
    si, sk,         \* classical LLL: loop indices (i and k of the sweep, i of the check)
    call,           \* a call of a Vector or Matrix method: its name and arguments
    ret             \* the value that call returned

vars == <<pc, B0, basis, eta, delta, gram, mu, r, s, kappa, zeros, m, ii,
          pass, run, B1, swap_condition, si, sk, call, ret>>

----------------------------------------------------------------------------
(* Scalars: rug::Integer is Int, rug::Rational is a canonical pair. *)

Abs(x) == IF x < 0 THEN -x ELSE x

Sign(x) == IF x < 0 THEN -1 ELSE IF x = 0 THEN 0 ELSE 1

\* Gcd and RNorm bind their arguments to p and x, so that each is computed once
RECURSIVE Gcd(_, _)
Gcd(a, b) ==
    CHOOSE g \in {IF p[2] = 0 THEN p[1] ELSE Gcd(p[2], p[1] % p[2]) : p \in {<<a, b>>}} : TRUE

\* Rational::from((n, d)): canonical form; d # 0 is the caller's duty
RNorm(n, d) ==
    CHOOSE q \in {<<Sign(p[2]) * (p[1] \div p[3]), Abs(p[2]) \div p[3]>> :
                    p \in {<<x[1], x[2], Gcd(Abs(x[1]), Abs(x[2]))>> : x \in {<<n, d>>}}} : TRUE

RInt(x) == <<x, 1>>
RZero == <<0, 1>>
RAdd(a, b) == RNorm(a[1] * b[2] + b[1] * a[2], a[2] * b[2])
RSub(a, b) == RNorm(a[1] * b[2] - b[1] * a[2], a[2] * b[2])
RMul(a, b) == RNorm(a[1] * b[1], a[2] * b[2])
RDiv(a, b) == RNorm(a[1] * b[2], a[2] * b[1])
RLt(a, b) == a[1] * b[2] < b[1] * a[2]
RLe(a, b) == a[1] * b[2] <= b[1] * a[2]
RAbs(a) == <<Abs(a[1]), a[2]>>

\* (mutant) the fractional part is dropped instead of rounded
RoundTrunc(f) == Sign(f[1]) * (Abs(f[1]) \div f[2])

\* BigNum::round: Rational::round, to nearest, ties away from zero
Round(f) == Sign(f[1]) * ((2 * Abs(f[1]) + f[2]) \div (2 * f[2]))

\* (mutant) the quotient is truncated, as Integer division does
round_divTrunc(n, d) == Sign(n) * Sign(d) * (Abs(n) \div Abs(d))

\* BigNum::round_div: Integer::div_rem_round, to nearest, ties away from zero
round_div(n, d) ==
    Sign(n) * Sign(d) * ((2 * Abs(n) + Abs(d)) \div (2 * Abs(d)))

----------------------------------------------------------------------------
(* Vector and Matrix (src/algebra) *)

Dim(v) == Cardinality(DOMAIN v)

RECURSIVE SumTo(_, _)
\* the sum of f[0], ..., f[k-1]
SumTo(f, k) == IF k = 0 THEN 0 ELSE SumTo(f, k - 1) + f[k - 1]

RECURSIVE RSumTo(_, _)
RSumTo(f, k) == IF k = 0 THEN RZero ELSE RAdd(RSumTo(f, k - 1), f[k - 1])

\* Vector::dot: the products of the zipped coefficients, as many as the
\* shorter operand has
dot(u, v) ==
    CHOOSE x \in {SumTo([t \in 0 .. n - 1 |-> u[t] * v[t]], n) :
                    n \in {IF Dim(u) <= Dim(v) THEN Dim(u) ELSE Dim(v)}} : TRUE

\* Vector::sub and Vector::add, past their assert_eq!(n, other.dimension())
sub(u, v) == [t \in DOMAIN u |-> u[t] - v[t]]
add(u, v) == [t \in DOMAIN u |-> u[t] + v[t]]
mulf(u, x) == [t \in DOMAIN u |-> u[t] * x]
is_zero(u) == \A t \in DOMAIN u : u[t] = 0

\* Matrix::dimensions().0: the number of columns
NumCols(M) == Cardinality(DOMAIN M)

\* (mutant) the two columns stay where they are
swapNone(M, i, j) == M

swap(M, i, j) == [M EXCEPT ![i] = M[j], ![j] = M[i]]

\* (mutant) columns i and j are exchanged
insertExchange(M, i, j) == [M EXCEPT ![i] = M[j], ![j] = M[i]]

\* (mutant) the last column takes the place of the removed one
VecSwapRemove(M, i) ==
    [t \in 0 .. NumCols(M) - 2 |-> IF t = i THEN M[NumCols(M) - 1] ELSE M[t]]

\* Vec::remove(i): the columns after i move down by one
VecRemove(M, i) ==
    [t \in 0 .. NumCols(M) - 2 |-> IF t < i THEN M[t] ELSE M[t + 1]]

\* Vec::insert(j, v): the columns from j on move up by one
VecInsert(M, j, v) ==
    [t \in 0 .. NumCols(M) |-> IF t < j THEN M[t] ELSE IF t = j THEN v ELSE M[t - 1]]

\* Matrix::insert: let v = columns.remove(i); columns.insert(j, v)
insert(M, i, j) == VecInsert(VecRemove(M, i), j, M[i])

\* Matrix::from_columns: the columns as they are given, none of them looked
\* at but the first, whose dimension goes into the field dimensions
from_columns(columns) == [c \in 0 .. Len(columns) - 1 |-> columns[c + 1]]

\* Matrix::init(d, d) of Integers and of Fractions
InitInt(d) == [a \in 0 .. d - 1 |-> [b \in 0 .. d - 1 |-> 0]]
InitFrac(d) == [a \in 0 .. d - 1 |-> [b \in 0 .. d - 1 |-> RZero]]

----------------------------------------------------------------------------
(* The generic L2 engine, S = BigNum (src/l2/mod.rs) *)

\* (mutant) the Gram matrix is left as it was
GramOfStale(M, old) == old

\* the Gram matrix computed in full, lower triangle only (j <= i)
GramOf(M, old) ==
    [a \in DOMAIN M |-> [b \in DOMAIN M |->
        IF b <= a THEN dot(M[a], M[b]) ELSE old[a][b]]]

\* assert!(0.25 < delta && delta < 1.); assert!(0.5 < eta && eta * eta < delta);
ParamsAccepted(e, dl) ==
    /\ RLt(<<1, 4>>, dl) /\ RLt(dl, <<1, 1>>)
    /\ RLt(<<1, 2>>, e) /\ RLt(RMul(e, e), dl)

\* from_ext((eta + 0.5) / 2.): exact for the dyadic values of eta used here;
\* for eta = 0.6 the f64 is 11/20 plus about 4.4e-17, which compares with the
\* coefficients of the run on S3Basis (none of them 11/20 or -11/20, see
\* S3NoTie) as 11/20 does
eta_minus(e) == RMul(RAdd(e, <<1, 2>>), <<1, 2>>)

\* from_ext(0.99): the f64 nearest to 0.99 is 4458563631096791 / 2^52, which is
\* 99/100 less about 8.9e-18.  Against the quantities of these runs (numerators
\* and denominators far below 10^15) delta_plus * rr compares as 99/100 * rr
\* does, except that equality with 99/100 * rr is decided by the missing bit.
delta_plus == <<99, 100>>
delta_criterion(rr) == RMul(delta_plus, rr)
DcGt(rr, x) == RLt(x, delta_criterion(rr)) \/ (x = delta_criterion(rr) /\ rr[1] < 0)
DcGe(rr, x) == RLt(x, delta_criterion(rr)) \/ (x = delta_criterion(rr) /\ rr[1] <= 0)

\* cfa(i, ...): row i of gram, r and mu; r[j][j] = 0 for some j < i makes the
\* Rational division panic
CfaDivZero(i, rm) == \E j \in 0 .. i - 1 : rm[j][j][1] = 0

CfaGramRow(i, bs, g) ==
    [g EXCEPT ![i] = [b \in DOMAIN g |->
        IF b <= i THEN dot(bs[i], bs[b]) ELSE g[i][b]]]

CfaRRow(i, g, mm, rm) ==
    LET rr[j \in 0 .. i - 1] ==
            RSub(RInt(g[i][j]),
                 RSumTo([k \in 0 .. j - 1 |-> RMul(rr[k], mm[j][k])], j))
    IN  [b \in DOMAIN rm |-> IF b < i THEN rr[b] ELSE rm[i][b]]

CfaMuRow(i, rrow, mm, rm) ==
    [b \in DOMAIN mm |-> IF b < i THEN RDiv(rrow[b], rm[b][b]) ELSE mm[i][b]]

\* (0..kappa).rev().all(|i| abs(mu[kappa][i]) < eta)
all_zeroes(k, murow, e) == \A i \in 0 .. k - 1 : RLt(RAbs(murow[i]), e)

\* lattice_reduce, up to the main loop
L2Entry ==
    /\ pc = "entry"
    /\ IF ~ParamsAccepted(eta, delta)
       THEN /\ pc' = "abort"
            /\ UNCHANGED <<gram, mu, r, s, kappa, zeros>>
       ELSE LET d == NumCols(basis)
                g == GramOf(basis, InitInt(d))
            IN  /\ gram' = g
                /\ r' = [InitFrac(d) EXCEPT ![0][0] = RInt(g[0][0])]
                /\ mu' = InitFrac(d)
                /\ s' = [a \in 0 .. d - 1 |-> RZero]
                /\ zeros' = 0
                /\ kappa' = 1
                /\ pc' = "loop"
    /\ UNCHANGED <<call, ret, B0, basis, eta, delta, m, ii, pass, run, B1, swap_condition, si, sk>>

\* while kappa < (d - zeros)
L2Loop ==
    /\ pc = "loop"
    /\ pc' = IF kappa < NumCols(basis) - zeros THEN "size_reduce" ELSE "ret"
    /\ UNCHANGED <<call, ret, B0, basis, eta, delta, gram, mu, r, s, kappa, zeros, m, ii,
                   pass, run, B1, swap_condition, si, sk>>

\* size_reduce: one turn of its loop up to the inner for: cfa, the test, m
L2SizeReduce ==
    /\ pc = "size_reduce"
    /\ IF CfaDivZero(kappa, r)
       THEN /\ pc' = "panic"
            /\ UNCHANGED <<gram, mu, r, m, ii>>
       ELSE LET g == CfaGramRow(kappa, basis, gram)
                rrow == CfaRRow(kappa, g, mu, r)
                murow == CfaMuRow(kappa, rrow, mu, r)
            IN  /\ gram' = g
                /\ r' = [r EXCEPT ![kappa] = rrow]
                /\ mu' = [mu EXCEPT ![kappa] = murow]
                /\ IF all_zeroes(kappa, murow, eta_minus(eta))
                   THEN pc' = "lovasz" /\ UNCHANGED <<m, ii>>
                   ELSE pc' = "round" /\ m' = murow /\ ii' = kappa - 1
    /\ UNCHANGED <<call, ret, B0, basis, eta, delta, s, kappa, zeros, pass, run, B1,
                   swap_condition, si, sk>>

\* (mutant) the multiple is taken of column kappa itself
RoundColumnSelf(bs, k, i, x) == [bs EXCEPT ![k] = sub(bs[k], mulf(bs[k], x))]

\* the update of column kappa by x_i = round(m[i])
RoundColumn(bs, k, i, x) == [bs EXCEPT ![k] = sub(bs[k], mulf(bs[i], x))]

\* size_reduce: one turn of "for i in (0..kappa).rev()", and after the last
\* one the update of row kappa of the Gram matrix
L2Round ==
    /\ pc = "round"
    /\ LET x_i == Round(m[ii])
           nb == IF x_i # 0 THEN RoundColumn(basis, kappa, ii, x_i) ELSE basis
       IN  /\ basis' = nb
           /\ m' = IF x_i # 0
                   THEN [j \in DOMAIN m |->
                            IF j < ii THEN RSub(m[j], RMul(mu[ii][j], RInt(x_i)))
                            ELSE m[j]]
                   ELSE m
           /\ IF ii = 0
              THEN /\ gram' = CfaGramRow(kappa, nb, gram)
                   /\ pc' = "size_reduce"
                   /\ ii' = ii
              ELSE /\ ii' = ii - 1
                   /\ UNCHANGED <<gram, pc>>
    /\ UNCHANGED <<call, ret, B0, eta, delta, mu, r, s, kappa, zeros, pass, run, B1,
                   swap_condition, si, sk>>

\* s[0] = gram[kappa][kappa]; s[i + 1] = s[i] - mu[kappa][i] * r[kappa][i]
SVector(k, g, mm, rm, old) ==
    LET sv[i \in 0 .. k] ==
            IF i = 0 THEN RInt(g[k][k])
            ELSE RSub(sv[i - 1], RMul(mm[k][i - 1], rm[k][i - 1]))
    IN  [i \in DOMAIN old |-> IF i <= k THEN sv[i] ELSE old[i]]

RECURSIVE Descend(_, _, _)
\* while kappa >= 1 && delta_criterion >= s[kappa - 1] { kappa -= 1 }
Descend(k, rr, sv) ==
    IF k >= 1 /\ DcGe(rr, sv[k - 1]) THEN Descend(k - 1, rr, sv) ELSE k

\* the Lovasz test of the main loop and what follows it
L2Lovasz ==
    /\ pc = "lovasz"
    /\ LET d == NumCols(basis)
           sv == SVector(kappa, gram, mu, r, s)
           rr == r[kappa - 1][kappa - 1]
       IN  /\ s' = sv
           /\ IF DcGt(rr, sv[kappa - 1])
              THEN LET kappa_prime == kappa
                       kd == Descend(kappa, rr, sv)
                       is_neg == RLe(sv[kd], RZero)
                       k == IF ~is_neg THEN kd ELSE d - (zeros + 1)
                       nb == IF k # kappa_prime THEN insert(basis, kappa_prime, k) ELSE basis
                       nmu == IF k # kappa_prime THEN insert(mu, kappa_prime, k) ELSE mu
                       nr == IF k # kappa_prime THEN insert(r, kappa_prime, k) ELSE r
                   IN  /\ basis' = nb
                       /\ mu' = nmu
                       /\ gram' = GramOf(nb, gram)
                       /\ zeros' = IF is_neg THEN zeros + 1 ELSE zeros
                       /\ IF is_neg
                          THEN kappa' = kappa_prime /\ r' = nr
                          ELSE /\ r' = [nr EXCEPT ![kd][kd] = sv[kd]]
                               /\ kappa' = kd + 1
              ELSE /\ r' = [r EXCEPT ![kappa][kappa] = sv[kappa]]
                   /\ kappa' = kappa + 1
                   /\ UNCHANGED <<basis, mu, gram, zeros>>
           /\ pc' = "loop"
    /\ UNCHANGED <<call, ret, B0, eta, delta, m, ii, pass, run, B1, swap_condition, si, sk>>

\* reduction: the second pass after the first, zeros_first after the second
L2Return ==
    /\ pc = "ret"
    /\ IF pass = 1
       THEN pass' = 2 /\ pc' = "entry"
       ELSE pass' = pass /\ pc' = "zeros_first"
    /\ UNCHANGED <<call, ret, B0, basis, eta, delta, gram, mu, r, s, kappa, zeros, m, ii,
                   run, B1, swap_condition, si, sk>>

\* zeros_first: one turn of "while basis[d - 1].is_zero()"
L2ZerosFirst ==
    /\ pc = "zeros_first"
    /\ LET d == NumCols(basis)
       IN  IF is_zero(basis[d - 1])
           THEN basis' = insert(basis, d - 1, 0) /\ pc' = pc
           ELSE basis' = basis /\ pc' = "done"
    /\ UNCHANGED <<call, ret, B0, eta, delta, gram, mu, r, s, kappa, zeros, m, ii,
                   pass, run, B1, swap_condition, si, sk>>

\* the caller runs the same reduction again on the matrix it got back
L2Rerun ==
    /\ pc = "done"
    /\ run = 1
    /\ run' = 2
    /\ B1' = basis
    /\ pass' = 1
    /\ pc' = "entry"
    /\ UNCHANGED <<call, ret, B0, basis, eta, delta, gram, mu, r, s, kappa, zeros, m, ii,
                   swap_condition, si, sk>>

----------------------------------------------------------------------------
(* Inputs *)

\* Vector::from_vector and Matrix::from_matrix (a list of columns)
from_vector(xs) == [t \in 0 .. Len(xs) - 1 |-> xs[t + 1]]
from_matrix(cols) == [c \in 0 .. Len(cols) - 1 |-> from_vector(cols[c + 1])]

\* no method is called on its own while an engine runs
NoCall == [op |-> "none"]

InitWork(B) ==
    LET d == NumCols(B)
    IN  /\ basis = B
        /\ B0 = B
        /\ B1 = B
        /\ gram = InitInt(d)
        /\ mu = InitFrac(d)
        /\ r = InitFrac(d)
        /\ s = [a \in 0 .. d - 1 |-> RZero]
        /\ m = [a \in 0 .. d - 1 |-> RZero]
        /\ kappa = 0
        /\ zeros = 0
        /\ ii = 0
        /\ pass = 1
        /\ run = 1
        /\ swap_condition = TRUE
        /\ si = 0
        /\ sk = 0

\* bounds of the inputs
MaxCoef == 2
MaxKnap == 3

\* all 2 x 2 matrices with coefficients in -MaxCoef .. MaxCoef
Square2 ==
    {from_matrix(<< <<a, b>>, <<c, e>> >>) :
        a \in -MaxCoef .. MaxCoef, b \in -MaxCoef .. MaxCoef,
        c \in -MaxCoef .. MaxCoef, e \in -MaxCoef .. MaxCoef}

\* the knapsack bases of the tests of src/lib.rs, 3 columns in dimension 4
Knapsack ==
    {from_matrix(<< <<1, 0, 0, a>>, <<0, 1, 0, b>>, <<0, 0, 1, c>> >>) :
        a \in 0 .. MaxKnap, b \in 0 .. MaxKnap, c \in 0 .. MaxKnap}

\* two columns whose squared norms are in the ratio 100 / 101, and two in the
\* ratio 9 / 10
Near == {from_matrix(<< <<10, 1>>, <<0, 10>> >>), from_matrix(<< <<3, 1>>, <<0, 3>> >>)}

InputsL2 == Square2 \cup Knapsack \cup Near

\* the matrices of one column (d = 1), the zero column among them
Column1 ==
    {from_matrix(<< <<a, b>> >>) : a \in -MaxCoef .. MaxCoef, b \in -MaxCoef .. MaxCoef}

\* (eta, delta) as the caller passes them: accepted pairs and one rejected
\* pair for each clause of the assertions
ParamsL2 ==
    { <<<<3, 4>>, <<3, 4>>>>, <<<<5, 8>>, <<3, 4>>>>, <<<<3, 4>>, <<127, 128>>>>,
      <<<<1, 2>>, <<3, 4>>>>, <<<<3, 4>>, <<1, 4>>>>, <<<<3, 4>>, <<1, 1>>>>,
      <<<<3, 4>>, <<1, 2>>>> }

\* the rank-deficient matrix of scenario S3 of spec.md, its parameters
\* (eta = 0.6, delta = 0.95) and the result stated for it
S3Basis == from_matrix(<< <<1, 2, 3>>, <<4, 5, 6>>, <<7, 8, 9>> >>)
S3Params == << <<3, 5>>, <<19, 20>> >>
S3Result == from_matrix(<< <<0, 0, 0>>, <<2, 1, 0>>, <<-1, 1, 3>> >>)

\* a matrix of three dependent columns, the third a multiple of the first by
\* a factor below eta_minus, and parameters the entry points accept for it
\* (eta = 0.95, delta = 0.95)
DependentBasis == from_matrix(<< <<7, 0>>, <<5, 5>>, <<5, 0>> >>)
DependentParams == << <<19, 20>>, <<19, 20>> >>

\* the calls of lll_bignum: a matrix and (eta, delta)
CallsL2 ==
    ((InputsL2 \cup Column1) \X ParamsL2)
        \cup {<<S3Basis, S3Params>>, <<DependentBasis, DependentParams>>}

InitL2 ==
    \E c \in CallsL2 :
        /\ InitWork(c[1])
        /\ eta = c[2][1]
        /\ delta = c[2][2]
        /\ pc = "entry"
        /\ call = NoCall
        /\ ret = <<>>

NextL2 ==
    \/ L2Entry
    \/ L2Loop
    \/ L2SizeReduce
    \/ L2Round
    \/ L2Lovasz
    \/ L2Return
    \/ L2ZerosFirst
    \/ L2Rerun

SpecL2 == InitL2 /\ [][NextL2]_vars

----------------------------------------------------------------------------
(* The classical LLL engine, S = BigNum (src/lll/mod.rs) *)

\* S::Fraction::from_ext((3, 4))
LLLDelta == <<3, 4>>

\* while swap_condition
LLLWhile ==
    /\ pc = "while"
    /\ IF swap_condition
       THEN pc' = "sweep" /\ si' = 0 /\ sk' = 1
       ELSE pc' = "done" /\ UNCHANGED <<si, sk>>
    /\ UNCHANGED <<call, ret, B0, basis, eta, delta, gram, mu, r, s, kappa, zeros, m, ii,
                   pass, run, B1, swap_condition>>

\* (mutant) b_i and b_j exchanged in the update
SweepColumnSwapped(bs, i, j, alpha) == [bs EXCEPT ![i] = sub(bs[j], mulf(bs[i], alpha))]

\* basis[i] = b_i.sub(&b_j.mulf(&alpha))
SweepColumn(bs, i, j, alpha) == [bs EXCEPT ![i] = sub(bs[i], mulf(bs[j], alpha))]

\* "for i in 0..n { for k in 1..i {": one turn of the inner loop, or the step
\* of a loop that is exhausted; after the last i, swap_condition = false
LLLSweep ==
    /\ pc = "sweep"
    /\ LET n == NumCols(basis)
       IN  IF si >= n
           THEN /\ swap_condition' = FALSE
                /\ si' = 0
                /\ pc' = "check"
                /\ UNCHANGED <<basis, sk>>
           ELSE IF sk >= si
           THEN /\ si' = si + 1
                /\ sk' = 1
                /\ UNCHANGED <<basis, pc, swap_condition>>
           ELSE LET j == si - sk
                    b_i == basis[si]
                    b_j == basis[j]
                IN  IF dot(b_j, b_j) = 0
                    THEN pc' = "panic" /\ UNCHANGED <<basis, si, sk, swap_condition>>
                    ELSE /\ basis' = SweepColumn(basis, si, j,
                                         round_div(dot(b_i, b_j), dot(b_j, b_j)))
                         /\ sk' = sk + 1
                         /\ UNCHANGED <<pc, si, swap_condition>>
    /\ UNCHANGED <<call, ret, B0, eta, delta, gram, mu, r, s, kappa, zeros, m, ii,
                   pass, run, B1>>

\* (mutant) the comparison of the check turned round
LLLViolatedReversed(bs, i) ==
    LET alpha == round_div(dot(bs[i + 1], bs[i]), dot(bs[i], bs[i]))
        vec_rhs == add(bs[i + 1], mulf(bs[i], alpha))
    IN  RLt(RMul(RInt(dot(bs[i], bs[i])), LLLDelta), RInt(dot(vec_rhs, vec_rhs)))

\* (mutant) the check without the multiple alpha of b_i
LLLViolatedPlain(bs, i) ==
    RLt(RInt(dot(bs[i + 1], bs[i + 1])), RMul(RInt(dot(bs[i], bs[i])), LLLDelta))

\* lhs > rhs of the Lovasz check at index i
LLLViolated(bs, i) ==
    LET b_i == bs[i]
        b_ip1 == bs[i + 1]
        lhs == RMul(RInt(dot(b_i, b_i)), LLLDelta)
        alpha == round_div(dot(b_ip1, b_i), dot(b_i, b_i))
        vec_rhs == add(b_ip1, mulf(b_i, alpha))
        rhs == dot(vec_rhs, vec_rhs)
    IN  RLt(RInt(rhs), lhs)

\* "for i in 0..n - 1": one turn of the Lovasz check
LLLCheck ==
    /\ pc = "check"
    /\ LET n == NumCols(basis)
       IN  IF si >= n - 1
           THEN pc' = "while" /\ UNCHANGED <<basis, si, swap_condition>>
           ELSE IF dot(basis[si], basis[si]) = 0
           THEN pc' = "panic" /\ UNCHANGED <<basis, si, swap_condition>>
           ELSE IF LLLViolated(basis, si)
           THEN /\ basis' = swap(basis, si, si + 1)
                /\ swap_condition' = TRUE
                /\ pc' = "while"
                /\ si' = si
           ELSE /\ si' = si + 1
                /\ UNCHANGED <<basis, pc, swap_condition>>
    /\ UNCHANGED <<call, ret, B0, eta, delta, gram, mu, r, s, kappa, zeros, m, ii,
                   pass, run, B1, sk>>

\* the caller runs lattice_reduce again on the matrix it got back
LLLRerun ==
    /\ pc = "done"
    /\ run = 1
    /\ run' = 2
    /\ B1' = basis
    /\ swap_condition' = TRUE
    /\ pc' = "while"
    /\ UNCHANGED <<call, ret, B0, basis, eta, delta, gram, mu, r, s, kappa, zeros, m, ii,
                   pass, si, sk>>

\* the 3 x 3 matrices with coefficients in -1 .. 1, one for each class under
\* sign changes and permutations of the coordinates (the engines only read the
\* coordinates through dot products, which these leave as they are)
Square3 ==
    {from_matrix(<< f, <<a[1], a[2], a[3]>>, <<a[4], a[5], a[6]>> >>) :
        f \in {<<0, 0, 0>>, <<1, 0, 0>>, <<1, 1, 0>>, <<1, 1, 1>>},
        a \in [1 .. 6 -> {-1, 0, 1}]}

InputsLLL == Square2 \cup Knapsack \cup Square3

\* the basis of test_lllf and test_biglll_2 and the result they assert
S1Basis == from_matrix(<< <<1, 0, 0, 1345>>, <<0, 1, 0, 35>>, <<0, 0, 1, 154>> >>)
S1Result == from_matrix(<< <<0, -4, 1, 14>>, <<0, 1, 0, 35>>, <<1, 348, -88, -27>> >>)

InitLLL ==
    \E B \in InputsLLL \cup Column1 :
        /\ InitWork(B)
        /\ eta = <<1, 2>>
        /\ delta = LLLDelta
        /\ pc = "while"
        /\ call = NoCall
        /\ ret = <<>>

NextLLL ==
    \/ LLLWhile
    \/ LLLSweep
    \/ LLLCheck
    \/ LLLRerun

SpecLLL == InitLLL /\ [][NextLLL]_vars

\* the calls of the tests of src/lib.rs: the basis of test_lllf and
\* test_biglll_2 and the small knapsack bases of the same shape
InitLLLTests ==
    \E B \in {S1Basis} \cup Knapsack :
        /\ InitWork(B)
        /\ eta = <<1, 2>>
        /\ delta = LLLDelta
        /\ pc = "while"
        /\ call = NoCall
        /\ ret = <<>>

\* the steps of a call are taken one after the other until it returns
FairSpecLLLTests == InitLLLTests /\ [][NextLLL]_vars /\ WF_vars(NextLLL)

----------------------------------------------------------------------------
(* The BigVector L2 engine (src/l2/bigl2.rs) *)

\* Rational::from_f64((eta + 0.5) / 2.) and Rational::from_f64((delta + 1.) / 2.):
\* exact for the dyadic values used here
big_eta_minus(e) == RMul(RAdd(e, <<1, 2>>), <<1, 2>>)
big_delta_plus(dl) == RMul(RAdd(dl, <<1, 1>>), <<1, 2>>)

\* lattice_reduce, up to the main loop: no condition on eta and delta
BigEntry ==
    /\ pc = "entry"
    /\ LET d == NumCols(basis)
           g == GramOf(basis, InitInt(d))
       IN  /\ gram' = g
           /\ r' = [InitFrac(d) EXCEPT ![0][0] = RInt(g[0][0])]
           /\ mu' = InitFrac(d)
           /\ kappa' = 1
           /\ pc' = "loop"
    /\ UNCHANGED <<call, ret, B0, basis, eta, delta, s, zeros, m, ii, pass, run, B1,
                   swap_condition, si, sk>>

\* while k < d
BigLoop ==
    /\ pc = "loop"
    /\ pc' = IF kappa < NumCols(basis) THEN "size_reduce" ELSE "done"
    /\ UNCHANGED <<call, ret, B0, basis, eta, delta, gram, mu, r, s, kappa, zeros, m, ii,
                   pass, run, B1, swap_condition, si, sk>>

\* size_reduce, "Update mu and r": r[k][i] for i in 0..=k, each from the
\* entries of row k set before it; mu[k][i] = r[k][i] / r[i][i]
BigRRow(k, g, mm, rm) ==
    LET rr[i \in 0 .. k] ==
            RSub(RInt(g[k][i]),
                 RSumTo([x \in 0 .. i - 1 |->
                            RMul(IF i = k THEN RDiv(rr[x], rm[x][x]) ELSE mm[i][x],
                                 rr[x])], i))
    IN  [b \in DOMAIN rm |-> IF b <= k THEN rr[b] ELSE rm[k][b]]

BigMuRow(k, rrow, mm, rm) ==
    [b \in DOMAIN mm |->
        IF b < k THEN RDiv(rrow[b], rm[b][b])
        ELSE IF b = k THEN RDiv(rrow[k], rrow[k])
        ELSE mm[k][b]]

\* the division r[k][i] / r[i][i] panics for some i <= k
BigSrDivZero(k, g, mm, rm) ==
    \/ \E i \in 0 .. k - 1 : rm[i][i][1] = 0
    \/ BigRRow(k, g, mm, rm)[k][1] = 0

\* size_reduce up to its test: (0..k).any(|index| mu[k][index] > eta)
BigSizeReduce ==
    /\ pc = "size_reduce"
    /\ IF BigSrDivZero(kappa, gram, mu, r)
       THEN /\ pc' = "panic"
            /\ UNCHANGED <<mu, r, ii>>
       ELSE LET rrow == BigRRow(kappa, gram, mu, r)
                murow == BigMuRow(kappa, rrow, mu, r)
            IN  /\ r' = [r EXCEPT ![kappa] = rrow]
                /\ mu' = [mu EXCEPT ![kappa] = murow]
                /\ IF \E index \in 0 .. kappa - 1 :
                          RLt(big_eta_minus(eta), murow[index])
                   THEN pc' = "round" /\ ii' = kappa - 1
                   ELSE pc' = "lovasz" /\ ii' = ii
    /\ UNCHANGED <<call, ret, B0, basis, eta, delta, gram, s, kappa, zeros, m, pass, run,
                   B1, swap_condition, si, sk>>

\* "Updating Gram matrix" after basis[k] changed: gram[k][j] for j < k,
\* gram[j][k] for j >= k
BigGramAt(k, bs, g) ==
    [a \in DOMAIN g |-> [b \in DOMAIN g |->
        IF a = k /\ b < k THEN dot(bs[k], bs[b])
        ELSE IF b = k /\ a >= k THEN dot(bs[k], bs[a])
        ELSE g[a][b]]]

\* size_reduce: one turn of "for i in (0..k).rev()"; after the last one
\* size_reduce calls itself
BigRound ==
    /\ pc = "round"
    /\ LET x == Round(mu[kappa][ii])
           nb == [basis EXCEPT ![kappa] = sub(basis[kappa], mulf(basis[ii], x))]
       IN  /\ basis' = nb
           /\ gram' = BigGramAt(kappa, nb, gram)
           /\ mu' = [mu EXCEPT ![kappa] = [j \in DOMAIN mu |->
                        IF j < ii THEN RSub(mu[kappa][j], RMul(RInt(x), mu[ii][j]))
                        ELSE mu[kappa][j]]]
    /\ IF ii = 0
       THEN pc' = "size_reduce" /\ ii' = ii
       ELSE pc' = pc /\ ii' = ii - 1
    /\ UNCHANGED <<call, ret, B0, eta, delta, r, s, kappa, zeros, m, pass, run, B1,
                   swap_condition, si, sk>>

\* "Updating Gram matrix" after the swap of columns k and k - 1
BigGramSwap(k, bs, g) ==
    [a \in DOMAIN g |-> [b \in DOMAIN g |->
        IF a = k /\ b < k THEN dot(bs[k], bs[b])
        ELSE IF a = k - 1 /\ b < k THEN dot(bs[k - 1], bs[b])
        ELSE IF b = k /\ a >= k THEN dot(bs[k], bs[a])
        ELSE IF b = k - 1 /\ a >= k THEN dot(bs[k - 1], bs[a])
        ELSE g[a][b]]]

\* "Updating mu and r" after the swap: r[i][j] and mu[i][j] for i in 0..=k,
\* j in 0..=i, in this order, with the square of mu[j][index]
BigNewR(k, g) ==
    LET nr[i \in 0 .. k, j \in 0 .. k] ==
            IF j > i THEN RZero
            ELSE RSub(RInt(g[i][j]),
                      RSumTo([x \in 0 .. j - 1 |->
                                 RMul(RMul(RDiv(nr[j, x], nr[x, x]),
                                           RDiv(nr[j, x], nr[x, x])),
                                      nr[i, x])], j))
    IN  nr

\* the division r[i][j] / r[j][j] panics: the first zero on the diagonal
BigSwapDivZero(k, g) ==
    \E j \in 0 .. k :
        /\ \A x \in 0 .. j - 1 : BigNewR(k, g)[x, x][1] # 0
        /\ BigNewR(k, g)[j, j][1] = 0

\* the Lovasz test of the main loop and what follows it
BigLovasz ==
    /\ pc = "lovasz"
    /\ LET k == kappa
           big_delta_criterion == RMul(big_delta_plus(delta), r[k - 1][k - 1])
           scalar_criterion == RAdd(r[k][k], RMul(mu[k][k - 1], r[k - 1][k - 1]))
       IN  IF RLt(big_delta_criterion, scalar_criterion)
           THEN /\ kappa' = k + 1
                /\ pc' = "loop"
                /\ UNCHANGED <<basis, gram, mu, r>>
           ELSE LET nb == swap(basis, k, k - 1)
                    g == BigGramSwap(k, nb, gram)
                IN  /\ basis' = nb
                    /\ gram' = g
                    /\ IF BigSwapDivZero(k, g)
                       THEN pc' = "panic" /\ UNCHANGED <<mu, r, kappa>>
                       ELSE /\ r' = [a \in DOMAIN r |-> [b \in DOMAIN r |->
                                       IF a <= k /\ b <= a THEN BigNewR(k, g)[a, b]
                                       ELSE r[a][b]]]
                            /\ mu' = [a \in DOMAIN mu |-> [b \in DOMAIN mu |->
                                       IF a <= k /\ b <= a
                                       THEN RDiv(BigNewR(k, g)[a, b], BigNewR(k, g)[b, b])
                                       ELSE mu[a][b]]]
                            /\ kappa' = IF k - 1 > 1 THEN k - 1 ELSE 1
                            /\ pc' = "loop"
    /\ UNCHANGED <<call, ret, B0, eta, delta, s, zeros, m, ii, pass, run, B1,
                   swap_condition, si, sk>>

InitBigL2 ==
    \E B \in InputsL2, p \in ParamsL2 :
        /\ InitWork(B)
        /\ eta = p[1]
        /\ delta = p[2]
        /\ pc = "entry"
        /\ call = NoCall
        /\ ret = <<>>

NextBigL2 ==
    \/ BigEntry
    \/ BigLoop
    \/ BigSizeReduce
    \/ BigRound
    \/ BigLovasz

SpecBigL2 == InitBigL2 /\ [][NextBigL2]_vars

\* the steps of a call are taken one after the other until it returns
FairSpecBigL2 == SpecBigL2 /\ WF_vars(NextBigL2)

----------------------------------------------------------------------------
(* The methods of Vector and Matrix called on their own (src/algebra) *)

\* the variables of the engines, which these calls leave alone
engine == <<B0, basis, eta, delta, gram, mu, r, s, kappa, zeros, m, ii,
            pass, run, B1, swap_condition, si, sk>>

\* self.add(other): assert_eq!(n, other.dimension()), then the sums
VecAdd ==
    /\ pc = "call" /\ call.op = "add"
    /\ IF Dim(call.u) # Dim(call.v)
       THEN pc' = "panic" /\ ret' = ret
       ELSE pc' = "returned" /\ ret' = add(call.u, call.v)
    /\ UNCHANGED <<call, engine>>

\* self.sub(other): assert_eq!(n, other.dimension()), then the differences
VecSub ==
    /\ pc = "call" /\ call.op = "sub"
    /\ IF Dim(call.u) # Dim(call.v)
       THEN pc' = "panic" /\ ret' = ret
       ELSE pc' = "returned" /\ ret' = sub(call.u, call.v)
    /\ UNCHANGED <<call, engine>>

\* self.dot(other): no assertion
VecDot ==
    /\ pc = "call" /\ call.op = "dot"
    /\ pc' = "returned"
    /\ ret' = dot(call.u, call.v)
    /\ UNCHANGED <<call, engine>>

\* Matrix::from_columns(columns): no assertion
MatFromColumns ==
    /\ pc = "call" /\ call.op = "from_columns"
    /\ pc' = "returned"
    /\ ret' = from_columns(call.columns)
    /\ UNCHANGED <<call, engine>>

\* self.insert(i, j): Vec::remove panics for i >= len, Vec::insert for an
\* index above the length left after the removal
MatInsert ==
    /\ pc = "call" /\ call.op = "insert"
    /\ IF call.i >= NumCols(call.M) \/ call.j > NumCols(call.M) - 1
       THEN pc' = "panic" /\ ret' = ret
       ELSE pc' = "returned" /\ ret' = insert(call.M, call.i, call.j)
    /\ UNCHANGED <<call, engine>>

\* bounds of the arguments
MaxDim == 2
MaxEntry == 1
MaxCols == 3

\* the vectors of dimension 0 .. MaxDim with coefficients in -MaxEntry .. MaxEntry
Vectors ==
    UNION {[0 .. n - 1 -> -MaxEntry .. MaxEntry] : n \in 0 .. MaxDim}

\* lists of up to MaxCols columns of dimension 0 .. MaxDim, of equal
\* dimensions or not; column c is filled with c
ColumnLists ==
    UNION {{[c \in 1 .. k |-> [t \in 0 .. n[c] - 1 |-> c]] : n \in [1 .. k -> 0 .. MaxDim]} :
             k \in 0 .. MaxCols}

\* the matrices of 1 .. MaxCols columns, each column one of MaxCols vectors
LabelledMatrices ==
    UNION {[0 .. d - 1 -> {from_vector(<<x>>) : x \in 0 .. MaxCols - 1}] : d \in 1 .. MaxCols}

CallsAlgebra ==
    {[op |-> o, u |-> a, v |-> b] : o \in {"add", "sub", "dot"}, a \in Vectors, b \in Vectors}
    \cup {[op |-> "from_columns", columns |-> l] : l \in ColumnLists}
    \cup UNION {{[op |-> "insert", M |-> A, i |-> x, j |-> y] :
                   x \in 0 .. NumCols(A), y \in 0 .. NumCols(A)} : A \in LabelledMatrices}

InitAlgebra ==
    \E c \in CallsAlgebra :
        /\ InitWork(from_matrix(<< <<0>> >>))
        /\ eta = <<3, 4>>
        /\ delta = <<3, 4>>
        /\ pc = "call"
        /\ call = c
        /\ ret = <<>>

NextAlgebra ==
    \/ VecAdd
    \/ VecSub
    \/ VecDot
    \/ MatFromColumns
    \/ MatInsert

SpecAlgebra == InitAlgebra /\ [][NextAlgebra]_vars

----------------------------------------------------------------------------
(* Exact Gram-Schmidt data of a matrix, computed from scratch *)

RECURSIVE Rho(_, _, _)
\* <b_i, b_j*> for j <= i; Rho(B, i, i) is the squared norm of b_i*
Rho(B, i, j) ==
    RSub(RInt(dot(B[i], B[j])),
         RSumTo([k \in 0 .. j - 1 |->
                    RDiv(RMul(Rho(B, i, k), Rho(B, j, k)), Rho(B, k, k))], j))

RECURSIVE IndependentTo(_, _)
\* the first k columns of B are linearly independent
IndependentTo(B, k) ==
    IF k = 0 THEN TRUE
    ELSE IF ~IndependentTo(B, k - 1) THEN FALSE
    ELSE Rho(B, k - 1, k - 1)[1] # 0

Independent(B) == IndependentTo(B, NumCols(B))

GSNorm(B, i) == Rho(B, i, i)
GSMu(B, i, j) == RDiv(Rho(B, i, j), Rho(B, j, j))

\* |mu_{i,j}| <= e for all j < i
SizeReduced(B, e) ==
    \A i \in DOMAIN B : \A j \in 0 .. i - 1 : RLe(RAbs(GSMu(B, i, j)), e)

\* dl * |b_i*|^2 <= |b_{i+1}*|^2 + mu_{i+1,i}^2 * |b_i*|^2 for all i < d - 1
Lovasz(B, dl) ==
    \A i \in 0 .. NumCols(B) - 2 :
        RLe(RMul(dl, GSNorm(B, i)),
            RAdd(GSNorm(B, i + 1),
                 RMul(RMul(GSMu(B, i + 1, i), GSMu(B, i + 1, i)), GSNorm(B, i))))

RECURSIVE Det(_, _)
\* the determinant of the k x k integer matrix M, by its first row
Det(M, k) ==
    IF k = 0 THEN 1
    ELSE SumTo([c \in 0 .. k - 1 |->
                   (IF c % 2 = 0 THEN 1 ELSE -1) * M[0][c]
                   * Det([a \in 0 .. k - 2 |-> [b \in 0 .. k - 2 |->
                            M[a + 1][IF b < c THEN b ELSE b + 1]]], k - 1)], k)

\* the matrix U with A.U = B when the columns of A are independent and those
\* of B lie in their integer span (Cramer's rule on the Gram matrix of A);
\* U[c] is the column of coefficients of B[c]
Coefficients(A, B) ==
    LET d == NumCols(A)
        G == [a \in 0 .. d - 1 |-> [b \in 0 .. d - 1 |-> dot(A[a], A[b])]]
        dG == Det(G, d)
        rhs(c) == [a \in 0 .. d - 1 |-> dot(A[a], B[c])]
        num(c, t) == Det([a \in 0 .. d - 1 |-> [b \in 0 .. d - 1 |->
                            IF b = t THEN rhs(c)[a] ELSE G[a][b]]], d)
    IN  [c \in DOMAIN B |-> [t \in 0 .. d - 1 |->
            IF num(c, t) % dG = 0 THEN num(c, t) \div dG ELSE 0]]

\* A.U, U given by its columns
Product(A, U) ==
    [c \in DOMAIN U |-> [t \in DOMAIN A[0] |->
        SumTo([k \in DOMAIN A |-> A[k][t] * U[c][k]], NumCols(A))]]

\* B = A.U for an integer matrix U with det U = 1 or -1 (A of full column rank)
Unimodular(A, B) ==
    LET U == Coefficients(A, B)
    IN  /\ Product(A, U) = B
        /\ Abs(Det([a \in DOMAIN U |-> [b \in DOMAIN U |-> U[b][a]]], NumCols(A))) = 1

\* one transition changes the basis by a unimodular column operation: a
\* permutation of the columns, or a multiple of another column subtracted
ElementaryStep(A, B) ==
    \/ B = A
    \/ \E i \in DOMAIN A, j \in DOMAIN A : B = insert(A, i, j) \/ B = swap(A, i, j)
    \/ \E i \in DOMAIN A : \E j \in DOMAIN A \ {i} :
          /\ dot(A[j], A[j]) # 0
          /\ LET x == dot(sub(A[i], B[i]), A[j]) \div dot(A[j], A[j])
             IN  B = [A EXCEPT ![i] = sub(A[i], mulf(A[j], x))]

----------------------------------------------------------------------------
(* Properties *)

\* (written as an equation so that TLC takes it as one state predicate inside
\* temporal formulas)
Accepted == ParamsAccepted(eta, delta) = TRUE

\* C1: in the L2 engine (exact arithmetic), for an input with linearly
\* independent columns and accepted (eta, delta), the basis at every point of
\* the run (after each size-reduction update, each insert, and at return) is
\* B0.U for an integer matrix U with det U = 1 or -1.
C1_SpanInvariant ==
    (Independent(B0) /\ Accepted) => Unimodular(B0, basis)

\* a run on independent columns that has returned a basis with a column that
\* is none of the input's
C1_Witness ==
    /\ Independent(B0) /\ Accepted
    /\ pc = "done" /\ run = 1
    /\ \E c \in DOMAIN basis : \A t \in DOMAIN B0 : basis[c] # B0[t]
    /\ \E c \in DOMAIN basis : basis[c] # B0[c] /\ \E t \in DOMAIN B0 : basis[c] = B0[t]

NonZeroColumns(B) == \A c \in DOMAIN B : ~is_zero(B[c])

\* C2: in the classical LLL engine, for an input with non-zero columns, every
\* step (a sweep update b_i <- b_i - alpha.b_j with j # i, a swap of columns
\* i and i+1) is a unimodular column operation, and for independent columns
\* the basis at every point of the run, the returned one included, is B0.U
\* for an integer matrix U with det U = 1 or -1.
C2_SpanInvariant ==
    /\ [](NonZeroColumns(B0) /\ Independent(B0) => Unimodular(B0, basis))
    /\ [][NonZeroColumns(B0) => ElementaryStep(basis, basis')]_vars

\* the classical engine has returned, on non-zero independent columns, a
\* basis in which the sweep has rewritten a column and the check has moved one
C2_Witness ==
    /\ NonZeroColumns(B0) /\ Independent(B0)
    /\ eta = <<1, 2>> /\ ~swap_condition
    /\ pc = "done"
    /\ \E c \in DOMAIN basis : \A t \in DOMAIN B0 : basis[c] # B0[t]
    /\ \E c \in DOMAIN basis : \E t \in DOMAIN B0 \ {c} : basis[c] = B0[t] /\ basis[c] # B0[c]

----------------------------------------------------------------------------
(* Termination *)

\* the steps of a call are taken one after the other until it returns
FairSpecL2 == SpecL2 /\ WF_vars(NextL2)
FairSpecLLL == SpecLLL /\ WF_vars(NextLLL)

\* C3: the L2 reduction (two passes, then zeros_first) started on linearly
\* independent columns with accepted (eta, delta) reaches its return.
C3_Terminates == ((Independent(B0) /\ Accepted) = TRUE) ~> (pc = "done")

\* a reduction on independent columns has returned after its second pass went
\* through the main loop, the basis having changed
C3_Witness ==
    /\ Independent(B0) /\ Accepted
    /\ pc = "done" /\ pass = 2 /\ kappa = NumCols(basis)
    /\ basis # B0

\* C4: the classical LLL engine started on linearly independent columns
\* leaves its "while swap_condition" loop and returns.
C4_Terminates == Independent(B0) ~> (pc = "done" /\ ~swap_condition)

\* the classical engine has returned on independent columns after at least
\* one swap (a column of the input sits at another index)
C4_Witness ==
    /\ Independent(B0)
    /\ pc = "done" /\ ~swap_condition /\ delta = LLLDelta
    /\ \E c \in DOMAIN basis : \E t \in DOMAIN B0 \ {c} : basis[c] = B0[t] /\ basis[c] # B0[c]

----------------------------------------------------------------------------
(* The returned basis *)

\* C5: the basis returned by an L2 reduction in exact arithmetic on linearly
\* independent columns with accepted (eta, delta) has |mu_{i,j}| <= eta for
\* all j < i, negative coefficients included, mu the exact Gram-Schmidt
\* coefficients of the returned basis.
C5_SizeReduced ==
    (pc = "done" /\ Independent(B0) /\ Accepted) => SizeReduced(basis, eta)

\* C6: the basis returned by the L2 reduction on linearly independent columns
\* with accepted (eta, delta) satisfies the Lovasz condition for the delta of
\* the call.
C6_Lovasz ==
    (pc = "done" /\ Independent(B0) /\ Accepted) => Lovasz(basis, delta)

\* C7: the basis returned by the classical LLL engine on linearly independent
\* columns is size-reduced with eta = 1/2 (j = 0 included) and satisfies the
\* Lovasz condition with delta = 3/4.
C7_Reduced ==
    (pc = "done" /\ Independent(B0)) =>
        (SizeReduced(basis, <<1, 2>>) /\ Lovasz(basis, LLLDelta))

----------------------------------------------------------------------------
(* The parameters *)

\* C8: an L2 entry point called with delta <= 1/4, delta >= 1, eta <= 1/2 or
\* eta^2 >= delta aborts: it does not return normally and the caller's matrix
\* stays as it was; with any other (eta, delta) the call is not aborted.
C8_ParamsChecked ==
    /\ ~Accepted => (basis = B0 /\ pc # "done")
    /\ Accepted => pc # "abort"

----------------------------------------------------------------------------
(* Running a reduction on its own output *)

\* C9: the L2 reduction called again, with the same (eta, delta), on the
\* matrix it returned, returns normally and returns that matrix.
C9_Idempotent ==
    run = 2 => (pc # "panic" /\ (pc = "done" => basis = B1))

\* C10: the classical LLL engine called again on the matrix it returned for
\* linearly independent columns returns that matrix.
C10_Idempotent ==
    (Independent(B0) /\ run = 2 /\ pc = "done") => basis = B1

----------------------------------------------------------------------------
\* C11: on a matrix of one column, the zero column included, the L2 reduction
\* called with accepted parameters leaves the column as it is and returns: the
\* engine is never at a place before its return from which it takes no further
\* step.
C11_OneColumn ==
    (NumCols(B0) = 1 /\ Accepted) =>
        (basis = B0 /\ (pc = "done" \/ ENABLED <<NextL2>>_vars))

----------------------------------------------------------------------------
(* An input that is reduced already *)

\* the caller's matrix has independent columns and is (eta, delta)-reduced for
\* the accepted parameters of the call
AlreadyReduced ==
    /\ Independent(B0) /\ Accepted
    /\ SizeReduced(B0, eta) /\ Lovasz(B0, delta)

\* C12: called on a basis that is (eta, delta)-reduced already, the L2 engine
\* never swaps or re-inserts a column (its Lovasz test leaves the basis as it
\* is and moves the working index up by one), the working index never
\* decreases within a pass, and the call reaches its return.
C12_OnlyChecks ==
    /\ [][(AlreadyReduced /\ run = 1 /\ pc = "lovasz") =>
              (basis' = basis /\ kappa' = kappa + 1)]_vars
    /\ [][(AlreadyReduced /\ run = 1 /\ pc # "entry") => kappa' >= kappa]_vars
    /\ (AlreadyReduced = TRUE) ~> (pc = "done")

----------------------------------------------------------------------------
(* Zero columns *)

\* C13: on an input matrix with one or more zero columns, at any index, index
\* 0 included, the engine never evaluates a division by zero (the places
\* where it would, r[i][j] / r[j][j] with r[j][j] = 0 in cfa and
\* round_div(., <b_j, b_j>) with <b_j, b_j> = 0, are the panics of the model).
C13_NoDivisionByZero ==
    ((\E c \in DOMAIN B0 : is_zero(B0[c])) /\ run = 1) => pc # "panic"

----------------------------------------------------------------------------
(* The results asserted by the tests of src/lib.rs *)

\* C14: the classical LLL engine (delta = 3/4) called on the columns
\* (1, 0, 0, 1345), (0, 1, 0, 35), (0, 0, 1, 154) returns, and the matrix it
\* returns has exactly the columns (0, -4, 1, 14), (0, 1, 0, 35),
\* (1, 348, -88, -27), in that order.  (On this input every dot product is an
\* integer below 2^53 and no quotient is within 2^-50 of a half-integer that
\* it does not equal, so the f64 flavour computes the same values.)
C14_Knapsack1345 ==
    /\ []((B0 = S1Basis /\ pc = "done" /\ run = 1) => basis = S1Result)
    /\ (B0 = S1Basis /\ run = 1) ~> (pc = "done")

\* the first call on that basis has returned, its last column rewritten
C14_Witness ==
    /\ B0 = S1Basis /\ pc = "done" /\ run = 1 /\ ~swap_condition
    /\ basis[2] = from_vector(<<1, 348, -88, -27>>)

\* on the run on S3Basis no coefficient compared with eta_minus is 11/20 in
\* absolute value
S3NoTie ==
    (B0 = S3Basis /\ kappa \in DOMAIN mu) =>
        \A i \in DOMAIN mu : RAbs(mu[kappa][i]) # <<11, 20>>

\* C15: the L2 reduction (two passes, then zeros_first) in exact arithmetic
\* with eta = 0.6, delta = 0.95 on the columns (1, 2, 3), (4, 5, 6), (7, 8, 9)
\* returns normally, and the matrix it returns has exactly the columns
\* (0, 0, 0), (2, 1, 0), (-1, 1, 3): the dependent direction has become a
\* zero column, placed first.
C15_RankDeficient ==
    /\ []((B0 = S3Basis /\ pc = "done" /\ run = 1) => basis = S3Result)
    /\ [](B0 = S3Basis /\ run = 1 => pc # "panic")
    /\ (B0 = S3Basis /\ run = 1) ~> (pc = "done")

\* the first call on that matrix has returned after retiring one zero column,
\* which zeros_first has moved to index 0
C15_Witness ==
    /\ B0 = S3Basis /\ eta = <<3, 5>> /\ delta = <<19, 20>>
    /\ pc = "done" /\ run = 1 /\ pass = 2
    /\ is_zero(basis[0]) /\ ~is_zero(basis[1]) /\ ~is_zero(basis[2])

----------------------------------------------------------------------------
(* Vector and Matrix methods *)

\* C16: add, sub and dot called on operands of different dimensions abort:
\* none of them returns a value, and dot in particular does not return the
\* product of the shorter operand with the beginning of the longer one.
C16_DimensionChecked ==
    (call.op \in {"add", "sub", "dot"} /\ Dim(call.u) # Dim(call.v)) => pc # "returned"

\* C17: Matrix::from_columns aborts when the columns it is given differ in
\* dimension: a Matrix it returns has columns of one dimension.
C17_UniformColumns ==
    (call.op = "from_columns" /\ pc = "returned") =>
        \A a \in DOMAIN ret : \A b \in DOMAIN ret : Dim(ret[a]) = Dim(ret[b])

\* the index after insert(i, j) of the column that was at t # i
InsertShift(i, j, t) ==
    IF i < t /\ t <= j THEN t - 1 ELSE IF j <= t /\ t < i THEN t + 1 ELSE t

\* C18: after insert(i, j) with i, j < d the column that was at i is at j, the
\* matrix has d columns as before, the other columns are in the order they
\* were in, and those strictly between the two positions have moved by one
\* index toward i.
C18_InsertMoves ==
    (call.op = "insert" /\ pc = "returned") =>
        LET M == call.M
            i == call.i
            j == call.j
        IN  /\ DOMAIN ret = DOMAIN M
            /\ ret[j] = M[i]
            /\ \A t \in DOMAIN M \ {i} : ret[InsertShift(i, j, t)] = M[t]
            /\ \A a \in DOMAIN M \ {i} : \A b \in DOMAIN M \ {i} :
                   a < b => InsertShift(i, j, a) < InsertShift(i, j, b)
            /\ \A t \in DOMAIN M :
                   /\ (i < t /\ t < j) => ret[t - 1] = M[t]
                   /\ (j < t /\ t < i) => ret[t + 1] = M[t]

\* insert(i, j) has returned with i and j two or more apart, on a matrix of
\* distinct columns
C18_Witness ==
    /\ call.op = "insert" /\ pc = "returned"
    /\ (call.j - call.i >= 2 \/ call.i - call.j >= 2)
    /\ \A a \in DOMAIN call.M : \A b \in DOMAIN call.M : a # b => call.M[a] # call.M[b]
    /\ ret # call.M

\* C19: insert(i, j) puts the i-th column before the j-th one: for i # j, in
\* a matrix of distinct columns, the column that was at i is afterwards at
\* the index just below the index of the column that was at j.
C19_InsertBefore ==
    ( /\ call.op = "insert" /\ pc = "returned" /\ call.i # call.j
      /\ \A a \in DOMAIN call.M : \A b \in DOMAIN call.M : a # b => call.M[a] # call.M[b] )
    => \E t \in DOMAIN ret :
           /\ t + 1 \in DOMAIN ret
           /\ ret[t] = call.M[call.i]
           /\ ret[t + 1] = call.M[call.j]

----------------------------------------------------------------------------
(* The thresholds of the L2 engine *)

\* C20: the Lovasz test of the L2 engine compares s[kappa - 1] with
\* delta_plus * r[kappa - 1][kappa - 1] for delta_plus = (delta + 1) / 2,
\* delta the caller's: the test takes its branch (the working index does not
\* move up by one) exactly when (delta + 1) / 2 * r[kappa - 1][kappa - 1] is
\* above s[kappa - 1].
C20_DeltaPlus ==
    [][(pc = "lovasz" /\ Accepted) =>
          ((kappa' # kappa + 1) <=>
              RLt(s'[kappa - 1],
                  RMul(RMul(RAdd(delta, <<1, 1>>), <<1, 2>>), r[kappa - 1][kappa - 1])))]_vars

----------------------------------------------------------------------------
(* The main loop of the L2 engine *)

\* C21: the working index starts at 1; an iteration of the main loop, after
\* the size reduction of column k, either moves the index up by one and
\* leaves the basis alone or swaps the adjacent columns k and k - 1 and sets
\* the index to max(1, k - 1); 1 <= k <= d at every evaluation of the loop
\* condition, and the loop is left exactly when k = d.
C21_ControlFlow ==
    /\ []((Accepted /\ pc = "loop") => (1 <= kappa /\ kappa <= NumCols(basis)))
    /\ [][(Accepted /\ pc = "entry") => kappa' = 1]_vars
    /\ [][(Accepted /\ pc = "lovasz") =>
              \/ kappa' = kappa + 1 /\ basis' = basis
              \/ /\ basis' = swap(basis, kappa, kappa - 1)
                 /\ kappa' = IF kappa - 1 > 1 THEN kappa - 1 ELSE 1]_vars
    /\ [][(Accepted /\ pc = "loop") =>
              ((pc' # "size_reduce") <=> kappa = NumCols(basis))]_vars

----------------------------------------------------------------------------
(* Size reduction *)

\* columns 0 .. kappa of the current basis are linearly independent, in a call
\* with accepted parameters
ReducibleAtKappa ==
    /\ Accepted
    /\ kappa \in DOMAIN basis
    /\ IndependentTo(basis, kappa + 1)

\* C22: size reduction at index kappa, columns 0 .. kappa being linearly
\* independent, returns; when it has returned (the engine is at its Lovasz
\* test) the exact Gram-Schmidt coefficients of the current basis satisfy
\* |mu[kappa][i]| <= eta_minus for all i < kappa and the stored mu[kappa][i]
\* are those coefficients; its steps change no column but column kappa.
C22_SizeReduceReturn ==
    /\ []((ReducibleAtKappa /\ pc = "lovasz") =>
            \A i \in 0 .. kappa - 1 :
                /\ RLe(RAbs(GSMu(basis, kappa, i)), eta_minus(eta))
                /\ mu[kappa][i] = GSMu(basis, kappa, i))
    /\ [][(ReducibleAtKappa /\ pc \in {"size_reduce", "round"}) =>
              \A c \in DOMAIN basis \ {kappa} : basis'[c] = basis[c]]_vars
    /\ ((ReducibleAtKappa /\ pc = "size_reduce") = TRUE)
           ~> (pc \notin {"size_reduce", "round"})

----------------------------------------------------------------------------
(* The Gram matrix *)

\* row i of the maintained Gram matrix is that of the current basis
GramRowExact(i) == \A j \in 0 .. i : gram[i][j] = dot(basis[i], basis[j])

----------------------------------------------------------------------------
(* The values of the Lovasz test *)

\* the stored r and mu of the rows up to kappa are those of the Gram-Schmidt
\* orthogonalisation of the current basis
StoredGSO ==
    /\ \A j \in 0 .. kappa - 1 : r[j][j] = GSNorm(basis, j)
    /\ \A i \in 0 .. kappa : \A j \in 0 .. i - 1 :
           /\ mu[i][j] = GSMu(basis, i, j)
           /\ r[i][j] = Rho(basis, i, j)

\* |b_k*|^2 + mu[k][k-1]^2 |b_{k-1}*|^2, from scratch
ExactLovaszRhs ==
    RAdd(GSNorm(basis, kappa),
         RMul(RMul(GSMu(basis, kappa, kappa - 1), GSMu(basis, kappa, kappa - 1)),
              GSNorm(basis, kappa - 1)))

\* C24: when the engine evaluates its Lovasz test at index kappa (columns
\* 0 .. kappa independent), r[j][j] = |b_j*|^2 for j < kappa,
\* mu[i][j] = <b_i, b_j*> / |b_j*|^2 and r[i][j] = <b_i, b_j*> for
\* j < i <= kappa, and the right-hand side of the test,
\* r[k][k] + mu[k][k-1] * r[k-1][k-1] as the engine computes it, is
\* |b_k*|^2 + mu[k][k-1]^2 |b_{k-1}*|^2.
C24_LovaszValues ==
    (ReducibleAtKappa /\ pc = "lovasz") =>
        /\ StoredGSO
        /\ RAdd(r[kappa][kappa], RMul(mu[kappa][kappa - 1], r[kappa - 1][kappa - 1]))
               = ExactLovaszRhs

----------------------------------------------------------------------------
(* Potentials of the classical LLL engine *)

RECURSIVE RPow(_, _)
\* x to the power n
RPow(x, n) == IF n = 0 THEN <<1, 1>> ELSE RMul(x, RPow(x, n - 1))

RECURSIVE RProdTo(_, _)
\* the product of f[0], ..., f[k-1]
RProdTo(f, k) == IF k = 0 THEN <<1, 1>> ELSE RMul(RProdTo(f, k - 1), f[k - 1])

\* the product over i of |b_i*|^(2(d - i)), columns counted from 0
GSPotential(B) ==
    RProdTo([i \in DOMAIN B |-> RPow(GSNorm(B, i), NumCols(B) - i)], NumCols(B))

\* C25: in the classical LLL engine on independent columns every swap makes
\* the Gram-Schmidt potential of the basis strictly smaller, and no step of
\* the sweep makes it larger.
C25_PotentialDecreases ==
    /\ [][(Independent(B0) /\ pc = "check" /\ basis' # basis) =>
              RLt(GSPotential(basis'), GSPotential(basis))]_vars
    /\ [][(Independent(B0) /\ pc = "sweep") =>
              RLe(GSPotential(basis'), GSPotential(basis))]_vars

----------------------------------------------------------------------------
(* The reshuffle of the zero columns *)

\* the number of zero columns at the end of the first n columns of B
RECURSIVE TrailingZeros(_, _)
TrailingZeros(B, n) ==
    IF n = 0 \/ ~is_zero(B[n - 1]) THEN 0 ELSE 1 + TrailingZeros(B, n - 1)

\* B with its trailing zero columns moved in front of the other columns, whose
\* order is kept
ZerosInFront(B) ==
    LET d == NumCols(B)
        t == TrailingZeros(B, d)
    IN  [c \in DOMAIN B |-> IF c < t THEN B[d - t + c] ELSE B[c - t]]

\* C26: zeros_first terminates on every matrix it is given, the matrix of zero
\* columns included (at no turn of its loop is the engine left without a
\* further step), and it returns the matrix with the zero columns that were
\* trailing moved in front of the other columns, whose order is unchanged.
C26_ZerosFirst ==
    /\ [](pc = "zeros_first" => ENABLED <<L2ZerosFirst>>_vars)
    /\ [][pc = "zeros_first" => ZerosInFront(basis') = ZerosInFront(basis)]_vars
    /\ [][(pc = "zeros_first" /\ pc' = "done") => basis' = ZerosInFront(basis)]_vars

----------------------------------------------------------------------------
(* The check of the classical engine *)

\* (3/4) <b_i, b_i> <= <w, w> for w = b_{i+1} + round_div(<b_{i+1}, b_i>,
\* <b_i, b_i>) b_i
CheckHolds(bs, i) ==
    LET alpha == round_div(dot(bs[i + 1], bs[i]), dot(bs[i], bs[i]))
        w == add(bs[i + 1], mulf(bs[i], alpha))
    IN  RLe(RMul(<<3, 4>>, RInt(dot(bs[i], bs[i]))), RInt(dot(w, w)))

\* C27: the basis the classical engine returns passes the engine's check at
\* every index i < d - 1; a turn of the check changes the basis only by the
\* swap of columns i and i + 1 at the smallest index i that fails the check,
\* and that swap ends the check of this outer iteration.
C27_CheckAtReturn ==
    /\ [](pc = "done" => \A i \in 0 .. NumCols(basis) - 2 : CheckHolds(basis, i))
    /\ [][(pc = "check" /\ swap_condition') =>
              /\ ~CheckHolds(basis, si)
              /\ \A i \in 0 .. si - 1 : CheckHolds(basis, i)
              /\ basis' = swap(basis, si, si + 1)
              /\ pc' = "while"]_vars
    /\ [][(pc = "check" /\ ~swap_condition') => basis' = basis]_vars

\* the classical engine has returned, in its first run, a basis of three
\* columns that a swap of the check has changed
C27_Witness ==
    /\ pc = "done" /\ run = 1
    /\ NumCols(basis) = 3
    /\ \E i \in 0 .. 1 : basis = swap(B0, i, i + 1) /\ basis # B0

----------------------------------------------------------------------------
(* The product of the norms of the columns *)

\* <b_0, b_0>^d . <b_1, b_1>^(d - 1) ... <b_{d-1}, b_{d-1}>
NormProduct(B) ==
    RProdTo([i \in DOMAIN B |-> RPow(RInt(dot(B[i], B[i])), NumCols(B) - i)], NumCols(B))

\* C28: the classical engine swaps columns i and i + 1 only when
\* <b_{i+1}, b_{i+1}> < (3/4) <b_i, b_i>; no step of the sweep increases the
\* norm of a column; so the product of the <b_i, b_i>^(d - i) never increases
\* and strictly decreases at every swap.
C28_NormProduct ==
    /\ [][(pc = "check" /\ swap_condition') =>
              RLt(RInt(dot(basis[si + 1], basis[si + 1])),
                  RMul(<<3, 4>>, RInt(dot(basis[si], basis[si]))))]_vars
    /\ [][pc = "sweep" =>
              \A c \in DOMAIN basis : dot(basis'[c], basis'[c]) <= dot(basis[c], basis[c])]_vars
    /\ [][RLe(NormProduct(basis'), NormProduct(basis))]_vars
    /\ [][(pc = "check" /\ swap_condition') =>
              RLt(NormProduct(basis'), NormProduct(basis))]_vars

\* C28 (amended): as C28, with the strict decrease at a swap stated for the
\* bases without a zero column; with a zero column the product is 0 before and
\* after the swap.
C28_NormProductNonZero ==
    /\ [][(pc = "check" /\ swap_condition') =>
              RLt(RInt(dot(basis[si + 1], basis[si + 1])),
                  RMul(<<3, 4>>, RInt(dot(basis[si], basis[si]))))]_vars
    /\ [][pc = "sweep" =>
              \A c \in DOMAIN basis : dot(basis'[c], basis'[c]) <= dot(basis[c], basis[c])]_vars
    /\ [][RLe(NormProduct(basis'), NormProduct(basis))]_vars
    /\ [][(pc = "check" /\ swap_condition' /\ NormProduct(basis) # <<0, 1>>) =>
              RLt(NormProduct(basis'), NormProduct(basis))]_vars

\* the check has just swapped two columns of a basis without a zero column,
\* after a sweep that made a column shorter, and the product is smaller than
\* that of the input
C28_Witness ==
    /\ pc = "while" /\ swap_condition /\ run = 1
    /\ \E c \in DOMAIN basis : \A t \in DOMAIN B0 : basis[c] # B0[t]
    /\ NormProduct(basis) # <<0, 1>>
    /\ RLt(NormProduct(basis), NormProduct(B0))

----------------------------------------------------------------------------
(* The columns the L2 engine retires *)

\* C29: whenever the L2 engine increments zeros, the column it retires (the
\* one at the working index, which goes to index d - zeros) is the zero
\* vector; so when a pass returns every column at an index >= d - zeros is
\* zero, and the columns below d - zeros hold every non-zero vector of the basis.
C29_RetiredIsZero ==
    /\ [][(Accepted /\ pc = "lovasz" /\ zeros' = zeros + 1) =>
              /\ is_zero(basis[kappa])
              /\ basis'[NumCols(basis) - zeros'] = basis[kappa]]_vars
    /\ []((Accepted /\ pc = "ret") =>
              \A c \in DOMAIN basis : c >= NumCols(basis) - zeros => is_zero(basis[c]))

----------------------------------------------------------------------------
(* The divisors of the L2 engine *)

\* C30: on linearly independent integer columns and accepted (eta, delta) the
\* L2 engine never divides by zero: whenever it is about to compute the row
\* mu[kappa][j] = r[kappa][j] / r[j][j], every divisor r[j][j], j < kappa, is
\* strictly positive, in both passes, and no division panics.
C30_PositiveDivisors ==
    /\ (Independent(B0) /\ Accepted) => pc # "panic"
    /\ (Independent(B0) /\ Accepted /\ pc = "size_reduce") =>
           \A j \in 0 .. kappa - 1 : RLt(RZero, r[j][j])

====
